---- MODULE Spec2Model ----
(***************************************************************************)
(* No Leftovers (Obsidian plugin): the task normalizer and the             *)
(* deduplicating append to the master file.                                *)
(*                                                                         *)
(* The repository holds two builds of the plugin.  src/main.ts appends a   *)
(* wikilink suffix "([[note]])" to every captured task and its normalizer  *)
(* removes a wikilink; src/unnamed/part_000 appends a date suffix          *)
(* "(YYYY-MM-DD.md)" and its normalizer removes a date.  The variable      *)
(* `variant` says which build runs.                                        *)
(*                                                                         *)
(* Text is a sequence of tokens.  A token is one character (a letter, a    *)
(* space, a newline) or one substring that the code's string patterns      *)
(* treat as a unit: the marker "- [ ]", a substring that matches the date  *)
(* pattern, a substring that matches the wikilink pattern, the header.     *)
(*                                                                         *)
(* Spec: capture operations (automatic and review) in sequence.            *)
(* MergeSpec: one capture operation on a longer batch.                     *)
(* NormSpec: normalizeTask applied to bounded lines.                       *)
(***************************************************************************)
EXTENDS Naturals, Sequences, FiniteSets

VARIABLES
    variant,        \* which build runs: "wikilink" (main.ts) or "date" (part_000)
    enableDedupe,   \* settings.enableDedupe
    master,         \* the vault's master file: [exists, content]
    ops,            \* number of capture operations started so far
    lastTasks,      \* tasks handed to the last capture operation
    lastBefore,     \* master file as the last operation found it
    lastDedupe,     \* settings.enableDedupe as the last operation read it
    lastKept,       \* per task of lastTasks: passed the duplicate filter
    lastAppended,   \* the formatted lines the last operation appended
    notices,        \* the Notice texts the last operation showed
    panel,          \* the review sidebar (part_000): [open, rows]
    dateFormat,     \* settings.dateFormat
    completion,     \* the completion content the last observed capture parsed
    cPc,            \* concurrent run: per operation, its position in the handler
    cTasks,         \* concurrent run: per operation, its batch
    cSnap,          \* concurrent run: per operation, the existingContent it read
    cAppended,      \* concurrent run: per operation, the lines it appended
    nPc,            \* normalizer run: "idle", "input", "normalized", "renormalized"
    nDesc,          \* normalizer run: the description d
    nAlt,           \* normalizer run: a case/whitespace variation of d
    nKeys,          \* normalizer run: normalizeTask of the lines built from d
    nRekeys         \* normalizer run: normalizeTask of each key of nKeys

captureVars == <<enableDedupe, master, ops, lastTasks, lastBefore, lastDedupe,
                 lastKept, lastAppended, notices, panel>>
normVars == <<nPc, nDesc, nAlt, nKeys, nRekeys>>
concVars == <<cPc, cTasks, cSnap, cAppended>>
vars == <<variant, dateFormat, captureVars, normVars, completion, concVars>>

(***************************************************************************)
(* Tokens                                                                  *)
(***************************************************************************)
MARK == "- [ ]"              \* the unchecked checkbox marker
SP == " "
NL == "\n"
DATE == "(2025-09-10.md)"    \* matches /\(\d{4}-\d{2}-\d{2}\.md\)/
LINK == "([[note]])"         \* matches /\(\[\[.*?\]\]\)/
HDR == "# No Leftovers"
CHECKED == "- [x]"           \* the checked checkbox marker
ODATE == "(10-09-2025.md)"   \* a date suffix \(\d{4}-\d{2}-\d{2}\.md\) does not match

Variants == {"wikilink", "date"}
Whitespace == {SP, NL}

(***************************************************************************)
(* String primitives of the JavaScript runtime, on token sequences         *)
(***************************************************************************)
RECURSIVE trimStart(_)
trimStart(s) ==
    IF s # <<>> /\ Head(s) \in Whitespace THEN trimStart(Tail(s)) ELSE s

RECURSIVE trimEnd(_)
trimEnd(s) ==
    IF s # <<>> /\ s[Len(s)] \in Whitespace
    THEN trimEnd(SubSeq(s, 1, Len(s) - 1))
    ELSE s

trim(s) == trimEnd(trimStart(s))

\* String.prototype.replace with a string pattern, or with a regular
\* expression without the g flag: only the first match is replaced (by '').
RECURSIVE replaceFirst(_, _)
replaceFirst(s, tok) ==
    IF s = <<>> THEN <<>>
    ELSE IF Head(s) = tok THEN Tail(s)
    ELSE <<Head(s)>> \o replaceFirst(Tail(s), tok)

lowerOf(c) == IF c = "A" THEN "a" ELSE c

toLowerCase(s) == [i \in 1..Len(s) |-> lowerOf(s[i])]

\* replace(/\s+/g, ' '): every run of whitespace becomes one space.
RECURSIVE collapseWhitespace(_)
collapseWhitespace(s) ==
    IF s = <<>> THEN <<>>
    ELSE IF Head(s) \in Whitespace
         THEN <<SP>> \o collapseWhitespace(trimStart(s))
         ELSE <<Head(s)>> \o collapseWhitespace(Tail(s))

startsWith(s, tok) == s # <<>> /\ Head(s) = tok

\* String.prototype.split('\n'): always at least one (possibly empty) piece.
RECURSIVE split(_)
split(s) ==
    IF \A i \in 1..Len(s) : s[i] # NL THEN <<s>>
    ELSE LET k == CHOOSE i \in 1..Len(s) :
                      s[i] = NL /\ \A j \in 1..(i - 1) : s[j] # NL
         IN  <<SubSeq(s, 1, k - 1)>> \o split(SubSeq(s, k + 1, Len(s)))

\* Array.prototype.join('\n')
RECURSIVE join(_)
join(lines) ==
    IF lines = <<>> THEN <<>>
    ELSE IF Len(lines) = 1 THEN lines[1]
    ELSE lines[1] \o <<NL>> \o join(Tail(lines))

Range(s) == {s[i] : i \in 1..Len(s)}

\* The sequences over S of length at most n.
RECURSIVE SeqsUpTo(_, _)
SeqsUpTo(S, n) ==
    IF n = 0 THEN {<<>>}
    ELSE LET shorter == SeqsUpTo(S, n - 1)
         IN  shorter \cup {<<x>> \o s : x \in S, s \in {t \in shorter : Len(t) = n - 1}}

(***************************************************************************)
(* The normalizer                                                          *)
(***************************************************************************)
\* main.ts: removes the first wikilink wherever it is, then the first marker.
normalizeTaskWikilink(task) ==
    LET taskWithoutLink == trim(replaceFirst(task, LINK))
    IN  collapseWhitespace(toLowerCase(trim(replaceFirst(taskWithoutLink, MARK))))

\* part_000: removes the first date wherever it is, then the first marker.
normalizeTaskDate(task) ==
    LET taskWithoutDate == trim(replaceFirst(task, DATE))
    IN  collapseWhitespace(toLowerCase(trim(replaceFirst(taskWithoutDate, MARK))))

normalizeTask(v, task) ==
    IF v = "wikilink" THEN normalizeTaskWikilink(task) ELSE normalizeTaskDate(task)

(***************************************************************************)
(* The vault (Obsidian's file store), as far as the plugin uses it         *)
(***************************************************************************)
NoFile == [exists |-> FALSE, content |-> <<>>]

\* app.vault.create(masterFilePath, data)
vaultCreate(data) == [exists |-> TRUE, content |-> data]

\* (a variation of vaultAppend: the data replaces the content, as
\* app.vault.modify would)
vaultModify(file, data) == [file EXCEPT !.content = data]

\* app.vault.append(masterFile, data)
vaultAppend(file, data) == [file EXCEPT !.content = @ \o data]

(***************************************************************************)
(* Extraction, duplicate filter, formatting                                *)
(***************************************************************************)
Map(f(_), s) == [i \in 1..Len(s) |-> f(s[i])]

\* (a variation of extractTasksFromNote: every line of the completion is
\* taken for a task)
extractAllLines(content) == Map(trim, split(trim(content)))

\* The parse at the end of extractTasksFromNote: the completion's content is
\* trimmed and split into lines; the lines that start with the marker are
\* kept, trimmed.
extractTasksFromNote(content) ==
    LET isTask(line) == startsWith(trim(line), MARK)
    IN  Map(trim, SelectSeq(split(trim(content)), isTask))

\* (a variation of extractExistingTasks: every line of the document is
\* normalized, whatever it starts with)
extractEveryLine(v, content) ==
    LET norm(line) == normalizeTask(v, line)
    IN  Map(norm, split(content))

extractExistingTasks(v, content) ==
    LET isTask(line) == startsWith(trim(line), MARK)
        norm(line) == normalizeTask(v, line)
    IN  Map(norm, SelectSeq(split(content), isTask))

isDuplicate(v, newTask, existingTasks) ==
    normalizeTask(v, newTask) \in Range(existingTasks)

\* Values of the "Date Format" setting: the default and a day-first format.
DefaultDateFormat == "YYYY-MM-DD"
DateFormats == {DefaultDateFormat, "DD-MM-YYYY"}

\* The suffix the build attaches: ([[sourceFileName]]), or (dateStr.md) with
\* dateStr = moment().format(this.settings.dateFormat).
provenance(v) ==
    IF v = "wikilink" THEN LINK
    ELSE IF dateFormat = DefaultDateFormat THEN DATE ELSE ODATE

\* `- [ ] ${cleanTask} ([[${sourceFileName}]])` / `- [ ] ${cleanTask} (${dateStr}.md)`
formatTask(v, task) ==
    LET cleanTask == trim(replaceFirst(task, MARK))
    IN  <<MARK, SP>> \o cleanTask \o <<SP, provenance(v)>>

\* tasks.filter(task => !this.isDuplicate(task, existingTasks)), as the flags
\* of the tasks that pass.
keptFlags(v, tasks, existingTasks) ==
    [i \in 1..Len(tasks) |-> ~isDuplicate(v, tasks[i], existingTasks)]

\* (a variation of newTasksOf: the tasks that pass, last one first)
newTasksReversed(tasks, kept) ==
    LET idx == {i \in 1..Len(tasks) : kept[i]}
        RECURSIVE pick(_)
        pick(i) == IF i = 0 THEN <<>>
                   ELSE IF i \in idx THEN <<tasks[i]>> \o pick(i - 1)
                   ELSE pick(i - 1)
    IN  pick(Len(tasks))

newTasksOf(tasks, kept) ==
    LET idx == {i \in 1..Len(tasks) : kept[i]}
        RECURSIVE pick(_)
        pick(i) == IF i > Len(tasks) THEN <<>>
                   ELSE IF i \in idx THEN <<tasks[i]>> \o pick(i + 1)
                   ELSE pick(i + 1)
    IN  pick(1)

\* formatted lines joined by '\n', followed by '\n\n'
contentOf(v, tasks) ==
    LET fmt(t) == formatTask(v, t)
    IN  join(Map(fmt, tasks)) \o <<NL, NL>>

AllExistNotice == "All tasks already exist in master file."
NoTasksNotice == "No actionable tasks found in the note."
NoFileNotice == "No active file. Please open a note first."
NoKeyNotice == "OpenAI API key not configured. Please check settings."
SuccessNotice == "Successfully captured tasks!"
ErrorNotice == "Error"

\* (a variation of ensureMasterFile: the missing file is created empty)
ensureEmptyFile(file) ==
    IF file.exists THEN file ELSE vaultCreate(<<>>)

\* The master file after the create-if-missing step.
ensureMasterFile(file) ==
    IF file.exists THEN file ELSE vaultCreate(<<HDR, NL, NL>>)

\* (a variation of dedupedAppend: without the return when no task is new)
dedupedAppendNoReturn(v, file, tasks) ==
    LET fmt(t) == formatTask(v, t)
        masterFile == ensureMasterFile(file)
        existingTasks == extractExistingTasks(v, masterFile.content)
        kept == keptFlags(v, tasks, existingTasks)
        newTasks == newTasksOf(tasks, kept)
    IN  [file |-> vaultAppend(masterFile, contentOf(v, newTasks)),
         kept |-> kept, appended |-> Map(fmt, newTasks),
         notices |-> IF Len(newTasks) = 0 THEN <<AllExistNotice>> ELSE <<>>]

\* appendTasksToMasterFile with settings.enableDedupe set: the tasks that are
\* no duplicate of an existing line are appended; when there is none, a
\* notice is shown and nothing is appended.
dedupedAppend(v, file, tasks) ==
    LET fmt(t) == formatTask(v, t)
        masterFile == ensureMasterFile(file)
        existingContent == masterFile.content
        existingTasks == extractExistingTasks(v, existingContent)
        kept == keptFlags(v, tasks, existingTasks)
        newTasks == newTasksOf(tasks, kept)
    IN  IF Len(newTasks) = 0
        THEN [file |-> masterFile, kept |-> kept, appended |-> <<>>,
              notices |-> <<AllExistNotice>>]
        ELSE [file |-> vaultAppend(masterFile, contentOf(v, newTasks)),
              kept |-> kept, appended |-> Map(fmt, newTasks),
              notices |-> <<>>]

\* appendTasksToMasterFile with settings.enableDedupe cleared.
plainAppend(v, file, tasks) ==
    LET fmt(t) == formatTask(v, t)
        masterFile == ensureMasterFile(file)
    IN  [file |-> vaultAppend(masterFile, contentOf(v, tasks)),
         kept |-> [i \in 1..Len(tasks) |-> TRUE],
         appended |-> Map(fmt, tasks), notices |-> <<>>]

\* (a variation of appendTasksToMasterFile: the setting is not consulted)
appendTasksAlwaysDedupe(v, dedupe, file, tasks) == dedupedAppend(v, file, tasks)

\* appendTasksToMasterFile(tasks, sourceFile): the file it leaves, the flags
\* of its duplicate filter, the lines it appended and the notices it showed.
appendTasksToMasterFile(v, dedupe, file, tasks) ==
    IF dedupe THEN dedupedAppend(v, file, tasks) ELSE plainAppend(v, file, tasks)

\* captureTasks / captureTasksAutomatic, from the active file and the API key
\* it finds and the completion the service returns (response.ok says whether
\* the call succeeded).
captureTasks(v, dedupe, file, inp) ==
    LET quiet(n) == [file |-> file, tasks |-> <<>>, kept |-> <<>>,
                     appended |-> <<>>, notices |-> <<n>>]
        tasks == extractTasksFromNote(inp.content)
        res == appendTasksToMasterFile(v, dedupe, file, tasks)
    IN  IF ~inp.activeFile THEN quiet(NoFileNotice)
        ELSE IF ~inp.apiKey THEN quiet(NoKeyNotice)
        ELSE IF ~inp.ok THEN quiet(ErrorNotice)
        ELSE IF Len(tasks) = 0 THEN quiet(NoTasksNotice)
        ELSE [file |-> res.file, tasks |-> tasks, kept |-> res.kept,
              appended |-> res.appended,
              notices |-> res.notices \o <<SuccessNotice>>]

(***************************************************************************)
(* Review mode (part_000): the sidebar                                     *)
(***************************************************************************)
NoPanel == [open |-> FALSE, rows |-> <<>>]

NoSelectionNotice == "No tasks selected."

\* updateTasks and render: one checked row per task, its text the task
\* without the marker.
rowsOf(tasks) ==
    [i \in 1..Len(tasks) |->
        [checked |-> TRUE, value |-> trim(replaceFirst(tasks[i], MARK))]]

\* showTaskSidebar: opens the sidebar on the extracted tasks, or leaves it
\* as it is when there is nothing to show.
showTaskSidebar(pnl, inp) ==
    LET tasks == extractTasksFromNote(inp.content)
    IN  IF ~inp.activeFile \/ ~inp.apiKey \/ ~inp.ok \/ Len(tasks) = 0
        THEN pnl
        ELSE [open |-> TRUE, rows |-> rowsOf(tasks)]

\* (a variation of selectedTasksOf: the checkbox is not looked at)
selectedIgnoringCheckbox(rows) ==
    LET chosen(r) == trim(r.value) # <<>>
        line(r) == <<MARK, SP>> \o trim(r.value)
    IN  Map(line, SelectSeq(rows, chosen))

\* confirmTasks: the rows that are checked and not blank, as task lines.
selectedTasksOf(rows) ==
    LET chosen(r) == r.checked /\ trim(r.value) # <<>>
        line(r) == <<MARK, SP>> \o trim(r.value)
    IN  Map(line, SelectSeq(rows, chosen))

\* The vault call of appendTasksToMasterFile that rejects, if any.
VaultFailures == {"none", "create", "read", "append"}

\* appendTasksToMasterFile when a vault call may reject: vault.create is
\* called only for a missing file, vault.append only when there are lines
\* to append; a call that rejects throws out of the function and leaves
\* the file as the calls before it made it.
appendOrThrow(v, dedupe, file, tasks, fails) ==
    LET res == appendTasksToMasterFile(v, dedupe, file, tasks)
        threw(f) == [file |-> f, kept |-> <<>>, appended |-> <<>>,
                     notices |-> <<>>, thrown |-> TRUE]
    IN  IF fails = "create" /\ ~file.exists THEN threw(file)
        ELSE IF fails = "read" THEN threw(ensureMasterFile(file))
        ELSE IF fails = "append" /\ res.appended # <<>>
             THEN threw(ensureMasterFile(file))
        ELSE [file |-> res.file, kept |-> res.kept, appended |-> res.appended,
              notices |-> res.notices, thrown |-> FALSE]

\* confirmTasks: with no row selected it shows a notice and the sidebar
\* stays; otherwise it appends, shows the success notice and closes the
\* sidebar, or shows the error and leaves the sidebar open.
confirmTasks(v, dedupe, file, pnl, fails) ==
    LET selectedTasks == selectedTasksOf(pnl.rows)
        res == appendOrThrow(v, dedupe, file, selectedTasks, fails)
        stay(f, n) == [file |-> f, panel |-> pnl, tasks |-> <<>>, kept |-> <<>>,
                       appended |-> <<>>, notices |-> <<n>>]
    IN  IF Len(selectedTasks) = 0 THEN stay(file, NoSelectionNotice)
        ELSE IF res.thrown THEN stay(res.file, ErrorNotice)
        ELSE [file |-> res.file, panel |-> NoPanel, tasks |-> selectedTasks,
              kept |-> res.kept, appended |-> res.appended,
              notices |-> res.notices \o <<SuccessNotice>>]

(***************************************************************************)
(* The plugin as a state machine                                           *)
(***************************************************************************)
MaxOps == 2        \* capture operations started in one behaviour of Spec
MaxBatch == 2      \* lines of one completion in a behaviour of Spec
MaxLongBatch == 3  \* lines of the completion in a behaviour of MergeSpec

\* Lines a completion is made of.
LinePool == {<<MARK, SP, "a">>, <<MARK, SP, "b">>}
LongLinePool == LinePool \cup {<<MARK, SP, "c">>}

\* What a capture operation finds: no active file, no API key, a failed call,
\* or a completion of up to n lines of the pool.
CaptureInputs(pool, n) ==
    {[activeFile |-> FALSE, apiKey |-> TRUE, ok |-> TRUE, content |-> <<>>],
     [activeFile |-> TRUE, apiKey |-> FALSE, ok |-> TRUE, content |-> <<>>],
     [activeFile |-> TRUE, apiKey |-> TRUE, ok |-> FALSE, content |-> <<>>]}
    \cup {[activeFile |-> TRUE, apiKey |-> TRUE, ok |-> TRUE, content |-> join(ls)] :
              ls \in SeqsUpTo(pool, n)}

Inputs == CaptureInputs(LinePool, MaxBatch)
LongInputs == CaptureInputs(LongLinePool, MaxLongBatch)

\* Master files a capture operation may find: none, a fresh one, one that the
\* wikilink build wrote to, one that the date build wrote to, one whose last
\* line the user typed without a line end.
InitFiles ==
    {NoFile,
     vaultCreate(<<HDR, NL, NL>>),
     vaultCreate(<<HDR, NL, NL, MARK, SP, "a", SP, LINK, NL, NL>>),
     vaultCreate(<<HDR, NL, NL, MARK, SP, "a", SP, DATE, NL>>),
     vaultCreate(<<HDR, NL, NL, MARK, SP, "b">>)}

NoKeys == [plain |-> <<>>, dated |-> <<>>, linked |-> <<>>,
           alt |-> <<>>, altDated |-> <<>>]

\* No concurrent run, no observed completion.
ConcIdle ==
    /\ completion = <<>>
    /\ cPc = <<>>
    /\ cTasks = <<>>
    /\ cSnap = <<>>
    /\ cAppended = <<>>

NormIdle ==
    /\ nPc = "idle"
    /\ nDesc = <<>>
    /\ nAlt = <<>>
    /\ nKeys = NoKeys
    /\ nRekeys = NoKeys

Init ==
    /\ variant \in Variants
    /\ dateFormat = DefaultDateFormat
    /\ enableDedupe \in BOOLEAN
    /\ master \in InitFiles
    /\ ops = 0
    /\ lastTasks = <<>>
    /\ lastBefore = master
    /\ lastDedupe = enableDedupe
    /\ lastKept = <<>>
    /\ lastAppended = <<>>
    /\ notices = <<>>
    /\ panel = NoPanel
    /\ NormIdle
    /\ ConcIdle

Capture(inp) ==
    \E res \in {captureTasks(variant, enableDedupe, master, inp)} :
        /\ master' = res.file
        /\ ops' = ops + 1
        /\ lastTasks' = res.tasks
        /\ lastBefore' = master
        /\ lastDedupe' = enableDedupe
        /\ lastKept' = res.kept
        /\ lastAppended' = res.appended
        /\ notices' = res.notices
        /\ UNCHANGED <<variant, dateFormat, enableDedupe, panel, normVars, concVars>>

\* The ribbon icon or the command runs captureTasks.
CaptureTasks ==
    /\ ops < MaxOps
    /\ \E inp \in Inputs : Capture(inp)
    /\ UNCHANGED completion

\* The settings tab's "Enable Deduplication" toggle.
ToggleDedupe ==
    /\ enableDedupe' = ~enableDedupe
    /\ UNCHANGED <<variant, dateFormat, master, ops, lastTasks, lastBefore, lastDedupe,
                   lastKept, lastAppended, notices, panel, normVars,
                   completion, concVars>>

\* One run of showTaskSidebar (part_000).
Show ==
    /\ variant = "date"
    /\ ops' = ops + 1
    /\ \E inp \in Inputs : panel' = showTaskSidebar(panel, inp)
    /\ UNCHANGED <<variant, dateFormat, enableDedupe, master, lastTasks, lastBefore,
                   lastDedupe, lastKept, lastAppended, notices, normVars,
                   completion, concVars>>

\* The ribbon icon or the review command runs showTaskSidebar (part_000).
ShowTaskSidebar ==
    /\ ops < MaxOps
    /\ Show

\* One run of confirmTasks, the vault behaving as fails says.
Confirm(fails) ==
    /\ variant = "date"
    /\ panel.open
    /\ lastBefore' = master
    /\ lastDedupe' = enableDedupe
    /\ \E res \in {confirmTasks(variant, enableDedupe, master, panel, fails)} :
         /\ master' = res.file
         /\ panel' = res.panel
         /\ lastTasks' = res.tasks
         /\ lastKept' = res.kept
         /\ lastAppended' = res.appended
         /\ notices' = res.notices
    /\ UNCHANGED <<variant, dateFormat, enableDedupe, ops, normVars, completion, concVars>>

\* The sidebar's "Add to Master File" button runs confirmTasks.
ConfirmTasks == Confirm("none")

\* The sidebar's "Cancel" button closes it.
CancelReview ==
    /\ variant = "date"
    /\ panel.open
    /\ panel' = NoPanel
    /\ UNCHANGED <<variant, dateFormat, enableDedupe, master, ops, lastTasks, lastBefore,
                   lastDedupe, lastKept, lastAppended, notices, normVars,
                   completion, concVars>>

Next ==
    \/ CaptureTasks
    \/ ToggleDedupe
    \/ ShowTaskSidebar
    \/ ConfirmTasks
    \/ CancelReview

Spec == Init /\ [][Next]_vars

\* One capture operation on a completion of up to MaxLongBatch lines.
CaptureLong ==
    /\ ops = 0
    /\ \E inp \in LongInputs : Capture(inp)
    /\ UNCHANGED completion

MergeNext == CaptureLong

MergeSpec == Init /\ [][MergeNext]_vars

(***************************************************************************)
(* One capture on documents and completions of mixed lines                 *)
(***************************************************************************)
MaxMixedBatch == 3  \* lines of the completion in a behaviour of ScanSpec

\* Lines of a completion, well-formed and not: a task in capitals, a task,
\* plain text, a checked checkbox line, a blank line.
MixedLinePool ==
    {<<MARK, SP, "A">>, <<MARK, SP, "b">>, <<"b">>, <<CHECKED, SP, "b">>, <<>>}

MixedInputs == CaptureInputs(MixedLinePool, MaxMixedBatch)

\* Master files with more than open tasks in them: one open task under the
\* header; a completed task and a line of plain text; a completed task, a
\* blank line and an indented open task.
ScanFiles ==
    {vaultCreate(<<HDR, NL, NL, MARK, SP, "a", SP, DATE, NL>>),
     vaultCreate(<<HDR, NL, NL, CHECKED, SP, "b", SP, DATE, NL, "b", NL>>),
     vaultCreate(<<HDR, NL, NL, CHECKED, SP, "a", SP, LINK, NL, NL,
                   SP, MARK, SP, "b", SP, LINK, NL>>)}

ScanInit ==
    /\ variant \in Variants
    /\ dateFormat = DefaultDateFormat
    /\ enableDedupe \in BOOLEAN
    /\ master \in ScanFiles
    /\ ops = 0
    /\ lastTasks = <<>>
    /\ lastBefore = master
    /\ lastDedupe = enableDedupe
    /\ lastKept = <<>>
    /\ lastAppended = <<>>
    /\ notices = <<>>
    /\ panel = NoPanel
    /\ NormIdle
    /\ ConcIdle

\* One run of captureTasks, the completion it parsed kept for inspection.
CaptureMixed ==
    /\ ops = 0
    /\ \E inp \in MixedInputs :
         /\ Capture(inp)
         /\ completion' = inp.content

ScanNext == CaptureMixed

ScanSpec == ScanInit /\ [][ScanNext]_vars

(***************************************************************************)
(* Two capture operations in flight at once                                *)
(*                                                                         *)
(* appendTasksToMasterFile is an async function: it runs up to each await  *)
(* (vault.create, vault.read, vault.append) and gives way to whatever else *)
(* is ready, another run of itself included. Nothing in the plugin holds   *)
(* a second run back while a first one is between its read and its append. *)
(***************************************************************************)
MaxConcBatch == 1  \* lines of each batch in a behaviour of ConcSpec

\* The two operations: two clicks on the ribbon icon, or the icon and the
\* command.
Procs == {"first", "second"}

ConcBatches == SeqsUpTo(LinePool, MaxConcBatch) \ {<<>>}

\* Master files the two operations may find: none, a fresh one, one with an
\* open task the build itself wrote.
ConcFiles ==
    {NoFile,
     vaultCreate(<<HDR, NL, NL>>),
     vaultCreate(<<HDR, NL, NL, MARK, SP, "a", SP, provenance(variant), NL, NL>>)}

ConcInit ==
    /\ variant \in Variants
    /\ dateFormat = DefaultDateFormat
    /\ enableDedupe \in BOOLEAN
    /\ master \in ConcFiles
    /\ ops = 0
    /\ lastTasks = <<>>
    /\ lastBefore = master
    /\ lastDedupe = enableDedupe
    /\ lastKept = <<>>
    /\ lastAppended = <<>>
    /\ notices = <<>>
    /\ panel = NoPanel
    /\ NormIdle
    /\ completion = <<>>
    /\ cPc = [p \in Procs |-> "idle"]
    /\ cTasks = [p \in Procs |-> <<>>]
    /\ cSnap = [p \in Procs |-> <<>>]
    /\ cAppended = [p \in Procs |-> <<>>]

\* What a run appends, decided on the content it read.
decidedOn(v, dedupe, existingContent, tasks) ==
    appendTasksToMasterFile(v, dedupe, vaultCreate(existingContent), tasks).appended

\* appendTasksToMasterFile is entered with a batch: the tasks are formatted,
\* the master file is looked up, and the run waits for vault.create when
\* there is none, for vault.read otherwise.
ConcStart(p) ==
    /\ cPc[p] = "idle"
    /\ \E tasks \in ConcBatches : cTasks' = [cTasks EXCEPT ![p] = tasks]
    /\ cPc' = [cPc EXCEPT ![p] = IF master.exists THEN "read" ELSE "create"]
    /\ UNCHANGED <<variant, dateFormat, captureVars, normVars, completion, cSnap, cAppended>>

\* vault.create: it makes the file with the header, or throws when the file
\* has come to exist meanwhile; captureTasks catches that and gives up.
ConcCreate(p) ==
    /\ cPc[p] = "create"
    /\ IF master.exists
       THEN /\ cPc' = [cPc EXCEPT ![p] = "failed"]
            /\ UNCHANGED master
       ELSE /\ master' = vaultCreate(<<HDR, NL, NL>>)
            /\ cPc' = [cPc EXCEPT ![p] = "read"]
    /\ UNCHANGED <<variant, dateFormat, enableDedupe, ops, lastTasks, lastBefore, lastDedupe,
                   lastKept, lastAppended, notices, panel, normVars, completion,
                   cTasks, cSnap, cAppended>>

\* vault.read resolves: the run has its existingContent, filters the batch
\* against it and either returns (nothing new) or calls vault.append.
ConcRead(p) ==
    /\ cPc[p] = "read"
    /\ cSnap' = [cSnap EXCEPT ![p] = master.content]
    /\ cPc' = [cPc EXCEPT ![p] =
                 IF decidedOn(variant, enableDedupe, master.content, cTasks[p]) = <<>>
                 THEN "done" ELSE "append"]
    /\ UNCHANGED <<variant, dateFormat, captureVars, normVars, completion, cTasks, cAppended>>

\* vault.append takes effect, with the lines decided on at the read.
ConcAppend(p) ==
    /\ cPc[p] = "append"
    /\ \E lines \in {decidedOn(variant, enableDedupe, cSnap[p], cTasks[p])} :
         /\ master' = vaultAppend(master, join(lines) \o <<NL, NL>>)
         /\ cAppended' = [cAppended EXCEPT ![p] = lines]
    /\ cPc' = [cPc EXCEPT ![p] = "done"]
    /\ UNCHANGED <<variant, dateFormat, enableDedupe, ops, lastTasks, lastBefore, lastDedupe,
                   lastKept, lastAppended, notices, panel, normVars, completion,
                   cTasks, cSnap>>

ConcNext ==
    \E p \in Procs :
        \/ ConcStart(p)
        \/ ConcCreate(p)
        \/ ConcRead(p)
        \/ ConcAppend(p)

ConcSpec == ConcInit /\ [][ConcNext]_vars

(***************************************************************************)
(* One review session (part_000): show, edit, confirm or cancel            *)
(***************************************************************************)
MaxRows == 2  \* rows the sidebar holds in a behaviour of ReviewSpec

\* What the user types into a row: " c", or only a blank.
EditValues == {<<SP, "c">>, <<SP>>}

ReviewInit ==
    /\ variant = "date"
    /\ dateFormat = DefaultDateFormat
    /\ enableDedupe \in BOOLEAN
    /\ master \in InitFiles
    /\ ops = 0
    /\ lastTasks = <<>>
    /\ lastBefore = master
    /\ lastDedupe = enableDedupe
    /\ lastKept = <<>>
    /\ lastAppended = <<>>
    /\ notices = <<>>
    /\ panel = NoPanel
    /\ NormIdle
    /\ ConcIdle

\* The ribbon icon or the review command runs showTaskSidebar.
ReviewShow ==
    /\ ops = 0
    /\ Show

\* The sidebar changes, nothing else does.
OnlyPanel(rows) ==
    /\ panel' = [panel EXCEPT !.rows = rows]
    /\ UNCHANGED <<variant, dateFormat, enableDedupe, master, ops, lastTasks, lastBefore,
                   lastDedupe, lastKept, lastAppended, notices, normVars,
                   completion, concVars>>

\* The user types into the text input of a row.
EditRow ==
    /\ panel.open
    /\ \E i \in 1..Len(panel.rows) : \E v \in EditValues :
         OnlyPanel([panel.rows EXCEPT ![i].value = v])

\* The user clicks the checkbox of a row.
ToggleRow ==
    /\ panel.open
    /\ \E i \in 1..Len(panel.rows) :
         OnlyPanel([panel.rows EXCEPT ![i].checked = ~@])

\* The remove button of a row: taskDiv.remove().
RemoveRow ==
    /\ panel.open
    /\ \E i \in 1..Len(panel.rows) :
         OnlyPanel(SubSeq(panel.rows, 1, i - 1)
                      \o SubSeq(panel.rows, i + 1, Len(panel.rows)))

\* The "+ Add Task" button runs addNewTask: a checked row with no text, last.
AddNewTask ==
    /\ panel.open
    /\ Len(panel.rows) < MaxRows
    /\ OnlyPanel(Append(panel.rows, [checked |-> TRUE, value |-> <<>>]))

\* The "Add to Master File" button, whatever the vault does.
ReviewConfirm == \E fails \in VaultFailures : Confirm(fails)

ReviewNext ==
    \/ ReviewShow
    \/ EditRow
    \/ ToggleRow
    \/ RemoveRow
    \/ AddNewTask
    \/ ReviewConfirm
    \/ CancelReview

ReviewSpec == ReviewInit /\ [][ReviewNext]_vars

(***************************************************************************)
(* The same capture twice, under either date format                        *)
(***************************************************************************)
MaxRepeatBatch == 1  \* lines of the completion in a behaviour of RepeatSpec

\* Lines of the completion: two tasks, and a task whose text ends in a
\* parenthesized link of the note it came from.
RepeatLinePool ==
    {<<MARK, SP, "a">>, <<MARK, SP, "b">>, <<MARK, SP, "a", SP, LINK>>}

RepeatInputs == CaptureInputs(RepeatLinePool, MaxRepeatBatch)

RepeatInit ==
    /\ variant \in Variants
    /\ dateFormat = DefaultDateFormat
    /\ enableDedupe \in BOOLEAN
    /\ master \in {NoFile, vaultCreate(<<HDR, NL, NL>>)}
    /\ ops = 0
    /\ lastTasks = <<>>
    /\ lastBefore = master
    /\ lastDedupe = enableDedupe
    /\ lastKept = <<>>
    /\ lastAppended = <<>>
    /\ notices = <<>>
    /\ panel = NoPanel
    /\ NormIdle
    /\ ConcIdle

\* The settings tab's "Date Format" text field.
SetDateFormat ==
    /\ ops = 0
    /\ \E f \in DateFormats : dateFormat' = f
    /\ UNCHANGED <<variant, captureVars, normVars, completion, concVars>>

\* The first capture of a note.
CaptureFirst ==
    /\ ops = 0
    /\ \E inp \in RepeatInputs :
         /\ Capture(inp)
         /\ completion' = inp.content

\* The capture of the same note again, the service returning what it
\* returned before.
CaptureAgain ==
    /\ ops = 1
    /\ \E inp \in RepeatInputs :
         /\ inp.content = completion
         /\ Capture(inp)
    /\ UNCHANGED completion

RepeatNext ==
    \/ SetDateFormat
    \/ CaptureFirst
    \/ CaptureAgain

RepeatSpec == RepeatInit /\ [][RepeatNext]_vars

(***************************************************************************)
(* Claims about the merge (checked under Spec and MergeSpec)               *)
(***************************************************************************)
\* The canonical key as the specification defines it: marker stripped, a
\* trailing provenance suffix of either shape stripped, trimmed, lower-cased,
\* whitespace runs collapsed.
CanonicalKey(line) ==
    LET t == trim(line)
        noMarker == IF startsWith(t, MARK) THEN trim(Tail(t)) ELSE t
        noSuffix == IF noMarker # <<>> /\ noMarker[Len(noMarker)] \in {DATE, LINK}
                    THEN trim(SubSeq(noMarker, 1, Len(noMarker) - 1))
                    ELSE noMarker
    IN  collapseWhitespace(toLowerCase(noSuffix))

\* The unchecked checkbox lines of a document.
UncheckedLines(content) ==
    LET isTask(line) == startsWith(trim(line), MARK)
    IN  Range(SelectSeq(split(content), isTask))

IsPrefix(a, b) == Len(a) <= Len(b) /\ SubSeq(b, 1, Len(a)) = a

\* a is b with some elements left out, the order kept.
RECURSIVE IsSubseq(_, _)
IsSubseq(a, b) ==
    IF a = <<>> THEN TRUE
    ELSE IF b = <<>> THEN FALSE
    ELSE IF Head(a) = Head(b) THEN IsSubseq(Tail(a), Tail(b))
    ELSE IsSubseq(a, Tail(b))

\* "- [ ] <description> <suffix of the build>" for a task "- [ ] <description>".
Formatted(task) ==
    <<MARK, SP>> \o trim(Tail(trim(task))) \o <<SP, provenance(variant)>>

FormattedBatch == [i \in 1..Len(lastTasks) |-> Formatted(lastTasks[i])]

\* The last operation handed a batch to appendTasksToMasterFile.
Merged == lastTasks # <<>>

\* The content the last operation appended to: what it found, or the header
\* of the file it created.
BaseContent == IF lastBefore.exists THEN lastBefore.content ELSE <<HDR, NL, NL>>

SkippedCount == Len(lastTasks) - Len(lastAppended)

KeptCount == Cardinality({i \in 1..Len(lastKept) : lastKept[i]})

\* The tasks of the batch whose canonical key an unchecked line of the
\* document already has.
KnownTasks ==
    {i \in 1..Len(lastTasks) :
        \E l \in UncheckedLines(lastBefore.content) :
            CanonicalKey(l) = CanonicalKey(lastTasks[i])}

\* C1: with dedupe enabled, every batch task whose canonical key an unchecked
\* line of the existing document has, whatever provenance suffix either
\* carries, is left out of the appended lines and counted as skipped once.
C1_NoDuplicateAcrossOperations ==
    (Merged /\ lastDedupe) =>
        /\ \A i \in KnownTasks : ~lastKept[i]
        /\ Len(lastAppended) <= Len(lastTasks) - Cardinality(KnownTasks)

\* C2: with dedupe enabled, a batch with two tasks of the same canonical key,
\* a key the existing document does not have, yields exactly one appended
\* line for that key: the first occurrence is accepted, the later ones skipped.
C2_WithinBatchDedupe ==
    (Merged /\ lastDedupe) =>
        \A i \in 1..Len(lastTasks) : \A j \in (i + 1)..Len(lastTasks) :
            (/\ CanonicalKey(lastTasks[i]) = CanonicalKey(lastTasks[j])
             /\ i \notin KnownTasks)
            => /\ ~lastKept[j]
               /\ Cardinality({k \in 1..Len(lastAppended) :
                      CanonicalKey(lastAppended[k]) = CanonicalKey(lastTasks[i])}) = 1

\* C3: the master document only grows at its end: in every step the content
\* before is a prefix of the content after, and an existing file stays.
C3_AppendOnly ==
    [][/\ IsPrefix(master.content, master'.content)
       /\ master.exists => master'.exists]_vars

\* Two operations in a row appended: the second one found a document that
\* the first one had extended, and extended it again.
C3_Witness ==
    /\ Merged
    /\ lastBefore.exists
    /\ lastBefore \notin InitFiles
    /\ lastAppended # <<>>
    /\ IsPrefix(lastBefore.content, master.content)
    /\ Len(master.content) > Len(lastBefore.content)

\* C4: the appended lines are in batch order: they are the formatted batch
\* with the skipped tasks left out, written in that order at the end of the
\* document, and a batch without duplicates is appended whole.
C4_OrderPreserved ==
    Merged =>
        /\ IsSubseq(lastAppended, FormattedBatch)
        /\ Len(lastAppended) = KeptCount
        /\ (\A i \in 1..Len(lastTasks) : lastKept[i]) => lastAppended = FormattedBatch
        /\ lastAppended # <<>> =>
               master.content = BaseContent \o join(lastAppended) \o <<NL, NL>>

\* With dedupe enabled, a batch of three distinct tasks was appended whole,
\* in batch order.
C4_Witness ==
    /\ Merged
    /\ Len(lastTasks) = 3
    /\ lastTasks[1] # lastTasks[2] /\ lastTasks[2] # lastTasks[3]
    /\ lastTasks[1] # lastTasks[3]
    /\ lastAppended = FormattedBatch
    /\ lastDedupe

\* C5: with dedupe disabled the appended lines are the whole batch, formatted,
\* in batch order, whatever the document holds, and nothing is skipped.
C5_DedupeDisabledPassthrough ==
    (Merged /\ ~lastDedupe) =>
        /\ Len(lastAppended) = Len(lastTasks)
        /\ lastAppended = FormattedBatch
        /\ SkippedCount = 0
        /\ master.content = BaseContent \o join(FormattedBatch) \o <<NL, NL>>

\* With dedupe disabled, a task the document already has was appended again.
C5_Witness ==
    /\ Merged
    /\ ~lastDedupe
    /\ Len(lastTasks) = 2
    /\ \E i \in 1..Len(lastTasks) :
           isDuplicate(variant, lastTasks[i],
                       extractExistingTasks(variant, lastBefore.content))
    /\ Len(lastAppended) = 2

\* The last operation had an empty batch.
EmptyBatch == ops > 0 /\ NoTasksNotice \in Range(notices)

\* The last operation, with dedupe enabled, found every task a duplicate.
AllDuplicates ==
    Merged /\ lastDedupe /\ \A i \in 1..Len(lastTasks) : ~lastKept[i]

\* C6: a merge that accepts no task (empty batch, or with dedupe enabled all
\* duplicates) is no error, shows a "nothing new" notice and writes nothing:
\* the master document is as the operation found it.
C6_NothingNewNoWrite ==
    (EmptyBatch \/ AllDuplicates) =>
        /\ master = lastBefore
        /\ lastAppended = <<>>
        /\ ErrorNotice \notin Range(notices)
        /\ \/ NoTasksNotice \in Range(notices)
           \/ AllExistNotice \in Range(notices)

\* A batch of two tasks, both duplicates, left the document untouched.
C6_Witness ==
    /\ AllDuplicates
    /\ Len(lastTasks) = 2
    /\ master = lastBefore
    /\ AllExistNotice \in Range(notices)

(***************************************************************************)
(* The normalizer applied to bounded inputs                                *)
(***************************************************************************)
MaxDescLen == 3

DescAlphabet == {SP, "a", "A", LINK, DATE, MARK}

Descs == SeqsUpTo(DescAlphabet, MaxDescLen)

swapCase(c) == IF c = "a" THEN "A" ELSE IF c = "A" THEN "a" ELSE c

\* Descriptions that differ from d in the case of one letter, in the length
\* of one whitespace run, or in leading or trailing whitespace.
Variations(d) ==
    {d, <<SP>> \o d, d \o <<SP>>}
    \cup {[d EXCEPT ![i] = swapCase(d[i])] : i \in 1..Len(d)}
    \cup {SubSeq(d, 1, i) \o <<SP>> \o SubSeq(d, i + 1, Len(d)) :
              i \in {j \in 1..Len(d) : d[j] = SP}}

\* "- [ ] d", as extractTasksFromNote and confirmTasks hand a task on.
TaskLine(d) == <<MARK, SP>> \o d

NormInit ==
    /\ variant \in Variants
    /\ dateFormat = DefaultDateFormat
    /\ nPc = "input"
    /\ nDesc \in Descs
    /\ nAlt \in Variations(nDesc)
    /\ nKeys = NoKeys
    /\ nRekeys = NoKeys
    /\ enableDedupe = TRUE
    /\ master = [exists |-> FALSE, content |-> <<>>]
    /\ ops = 0
    /\ lastTasks = <<>>
    /\ lastBefore = [exists |-> FALSE, content |-> <<>>]
    /\ lastDedupe = TRUE
    /\ lastKept = <<>>
    /\ lastAppended = <<>>
    /\ notices = <<>>
    /\ panel = NoPanel
    /\ ConcIdle

\* normalizeTask on "- [ ] d", "- [ ] d (2025-09-10.md)", "- [ ] d ([[note]])",
\* and on the variation of d without and with a date suffix.
Normalize ==
    /\ nPc = "input"
    /\ nKeys' = [plain    |-> normalizeTask(variant, TaskLine(nDesc)),
                 dated    |-> normalizeTask(variant, TaskLine(nDesc) \o <<SP, DATE>>),
                 linked   |-> normalizeTask(variant, TaskLine(nDesc) \o <<SP, LINK>>),
                 alt      |-> normalizeTask(variant, TaskLine(nAlt)),
                 altDated |-> normalizeTask(variant, TaskLine(nAlt) \o <<SP, DATE>>)]
    /\ nPc' = "normalized"
    /\ UNCHANGED <<variant, dateFormat, captureVars, nDesc, nAlt, nRekeys, completion, concVars>>

\* normalizeTask on each key that Normalize produced.
Renormalize ==
    /\ nPc = "normalized"
    /\ nRekeys' = [k \in DOMAIN nKeys |-> normalizeTask(variant, nKeys[k])]
    /\ nPc' = "renormalized"
    /\ UNCHANGED <<variant, dateFormat, captureVars, nDesc, nAlt, nKeys, completion, concVars>>

NormNext == Normalize \/ Renormalize

NormSpec == NormInit /\ [][NormNext]_vars

(***************************************************************************)
(* Claims about the normalizer (checked under NormSpec)                    *)
(***************************************************************************)
Count(s, tok) == Cardinality({i \in 1..Len(s) : s[i] = tok})

\* Occurrences of tok in s that some non-whitespace text follows.
InteriorCount(s, tok) ==
    Cardinality({i \in 1..Len(s) :
        s[i] = tok /\ \E j \in (i + 1)..Len(s) : s[j] \notin Whitespace})

\* C7: the normalizer strips either provenance suffix shape: "- [ ] d
\* (YYYY-MM-DD.md)", "- [ ] d ([[note]])" and "- [ ] d" all have the same
\* canonical key, for every description d.
C7_SuffixShapeEquivalence ==
    nPc \in {"normalized", "renormalized"} =>
        /\ nKeys.dated = nKeys.plain
        /\ nKeys.linked = nKeys.plain

\* C8: provenance removal is suffix-only: a provenance-shaped token in the
\* interior of the description (text follows it) stays in the canonical key.
C8_SuffixOnly ==
    nPc \in {"normalized", "renormalized"} =>
        \A tok \in {DATE, LINK} :
            Count(nKeys.plain, tok) >= InteriorCount(TaskLine(nDesc), tok)

\* C9: normalization is idempotent on canonical keys: with canon =
\* normalize(x), normalize(canon) = canon, for every raw line x.
C9_Idempotent ==
    nPc = "renormalized" =>
        \A k \in DOMAIN nKeys : nRekeys[k] = nKeys[k]

\* C10: the canonical key is case-insensitive and whitespace-collapsed: lines
\* whose descriptions differ only in letter case, in leading/trailing
\* whitespace, in the length of a whitespace run or in the presence of a
\* trailing date suffix have the same key.
C10_CaseSpaceInsensitive ==
    nPc \in {"normalized", "renormalized"} =>
        /\ nKeys.alt = nKeys.plain
        /\ nKeys.dated = nKeys.plain
        /\ nKeys.altDated = nKeys.plain

(***************************************************************************)
(* Claims about the scan and the parse (checked under ScanSpec and Spec)   *)
(***************************************************************************)
\* The keys the build's normalizer gives the unchecked lines of the document
\* the last operation found.
UncheckedKeys ==
    {normalizeTask(variant, l) : l \in UncheckedLines(lastBefore.content)}

\* The checked checkbox lines of a document.
CheckedLines(content) ==
    LET isDone(line) == startsWith(trim(line), CHECKED)
    IN  Range(SelectSeq(split(content), isDone))

\* C11: the scan of the existing document takes keys from the unchecked
\* lines only: a batch task is skipped exactly when an unchecked line has its
\* key, so the header, blank lines, other text and checked lines never make
\* a task a duplicate.
C11_OnlyUncheckedLinesScanned ==
    (Merged /\ lastDedupe) =>
        \A i \in 1..Len(lastTasks) :
            lastKept[i] <=> normalizeTask(variant, lastTasks[i]) \notin UncheckedKeys

\* A task whose description is that of a completed line was accepted as new.
C11_Witness ==
    /\ Merged
    /\ lastDedupe
    /\ \E l \in CheckedLines(lastBefore.content) :
         \E i \in 1..Len(lastTasks) :
            /\ CanonicalKey(lastTasks[i]) = CanonicalKey(<<MARK>> \o Tail(trim(l)))
            /\ lastKept[i]
            /\ Formatted(lastTasks[i]) \in Range(lastAppended)

\* No two tasks of the last batch have the same canonical key.
DuplicateFreeBatch ==
    \A i, j \in 1..Len(lastTasks) :
        i # j => CanonicalKey(lastTasks[i]) # CanonicalKey(lastTasks[j])

\* C12: when the master file is absent at the start of a merge, no error is
\* shown, the file is created with the header "# No Leftovers" and a blank
\* line, and every task of a duplicate-free batch is appended after them, in
\* order, none skipped.
C12_AbsentFileCreated ==
    (Merged /\ ~lastBefore.exists) =>
        /\ ErrorNotice \notin Range(notices)
        /\ master.exists
        /\ IsPrefix(<<HDR, NL, NL>>, master.content)
        /\ DuplicateFreeBatch =>
              /\ \A i \in 1..Len(lastTasks) : lastKept[i]
              /\ lastAppended = FormattedBatch
              /\ master.content = <<HDR, NL, NL>> \o join(FormattedBatch) \o <<NL, NL>>

\* A dedupe-enabled merge of two different tasks found no master file and
\* left both under the header.
C12_Witness ==
    /\ Merged
    /\ ~lastBefore.exists
    /\ lastDedupe
    /\ Len(lastTasks) = 2
    /\ DuplicateFreeBatch
    /\ Len(lastAppended) = 2
    /\ master.exists

\* The lines of the completion the last capture parsed, and those of them
\* that have the shape "- [ ] <description>".
CompletionLines == split(trim(completion))

WellFormed(line) == startsWith(trim(line), MARK)

WellFormedLines == SelectSeq(CompletionLines, WellFormed)

\* C13: a line of the completion that does not have the shape
\* "- [ ] <description>" is dropped without an error and reaches the master
\* file in no form; the well-formed lines around it are the batch, in their
\* order, and only lines formatted from them are appended.
C13_MalformedLinesDropped ==
    (ops = 1 /\ completion # <<>>) =>
        /\ ErrorNotice \notin Range(notices)
        /\ lastTasks = Map(trim, WellFormedLines)
        /\ IsSubseq(lastAppended, Map(Formatted, WellFormedLines))
        /\ ~lastDedupe => lastAppended = Map(Formatted, WellFormedLines)
        /\ master.content =
              lastBefore.content \o
                 (IF lastAppended = <<>> THEN <<>>
                  ELSE join(lastAppended) \o <<NL, NL>>)

\* A line of plain text stood between two tasks; the two tasks were appended
\* in their order and the text was not.
C13_Witness ==
    /\ completion = join(<< <<MARK, SP, "A">>, <<"b">>, <<MARK, SP, "b">> >>)
    /\ ~lastDedupe
    /\ lastAppended = <<Formatted(<<MARK, SP, "A">>), Formatted(<<MARK, SP, "b">>)>>
    /\ master.content = lastBefore.content \o join(lastAppended) \o <<NL, NL>>

\* The document of the scenario: the header, a blank line and the open task
\* "email vendor" with a date suffix ("a" stands for its description).
ScenarioDocument == <<HDR, NL, NL, MARK, SP, "a", SP, DATE, NL>>

\* The batch of the scenario: "- [ ] Email vendor", "- [ ] File taxes".
ScenarioBatch == << <<MARK, SP, "A">>, <<MARK, SP, "b">> >>

\* C14: with dedupe enabled, the document "# No Leftovers", blank line,
\* "- [ ] email vendor (2025-09-09.md)" and the batch "- [ ] Email vendor",
\* "- [ ] File taxes", the merge appends exactly the line
\* "- [ ] File taxes (<today>.md)" and skips exactly one task.
C14_EndToEndScenario ==
    (lastDedupe /\ lastBefore.content = ScenarioDocument
                /\ lastTasks = ScenarioBatch) =>
        /\ lastAppended = << <<MARK, SP, "b", SP, DATE>> >>
        /\ SkippedCount = 1
        /\ master.content =
              ScenarioDocument \o <<MARK, SP, "b", SP, DATE, NL, NL>>

(***************************************************************************)
(* Claim about operations in flight at once (checked under ConcSpec)       *)
(***************************************************************************)
\* C15: with dedupe enabled and two capture operations in flight, whatever
\* the interleaving of their create, read and append steps, no canonical
\* key is appended by both: the later one never decides on a content that
\* lacks the earlier one's lines.
C15_NoLostUpdate ==
    enableDedupe =>
        \A l1 \in Range(cAppended["first"]) :
            \A l2 \in Range(cAppended["second"]) :
                CanonicalKey(l1) # CanonicalKey(l2)

(***************************************************************************)
(* Claim about review mode (checked under ReviewSpec)                      *)
(***************************************************************************)
\* The rows that are checked and have more than blanks in them, in the
\* order displayed, each as "- [ ] <its text, trimmed>".
RECURSIVE SubmittedRows(_)
SubmittedRows(rows) ==
    IF rows = <<>> THEN <<>>
    ELSE LET r == Head(rows)
             filled == \E k \in 1..Len(r.value) : r.value[k] \notin Whitespace
         IN  (IF r.checked /\ filled
              THEN << <<MARK, SP>> \o trim(r.value) >> ELSE <<>>)
             \o SubmittedRows(Tail(rows))

\* The step is a confirm that went through: the rows submitted are the
\* batch, the success notice is shown, and the master file is what it was
\* (or the header, if it was missing) plus the lines the merge appended.
ConfirmSucceeded ==
    /\ panel.open
    /\ lastTasks' = SubmittedRows(panel.rows)
    /\ lastTasks' # <<>>
    /\ SuccessNotice \in Range(notices')
    /\ ErrorNotice \notin Range(notices')
    /\ master'.exists
    /\ master'.content =
          (IF master.exists THEN master.content ELSE <<HDR, NL, NL>>) \o
             (IF lastAppended' = <<>> THEN <<>>
              ELSE join(lastAppended') \o <<NL, NL>>)

\* The step is a confirm whose vault call rejected: the error is shown and
\* the sidebar stays as it is; at most the missing file was created.
ConfirmFailed ==
    /\ panel.open
    /\ SubmittedRows(panel.rows) # <<>>
    /\ ErrorNotice \in Range(notices')
    /\ panel' = panel
    /\ master' \in {master, vaultCreate(<<HDR, NL, NL>>)}

\* C16: in review mode the master file is written by a confirm only, which
\* submits exactly the rows present, checked and not blank, in displayed
\* order; showing, editing, adding and removing rows and cancel leave the
\* file as it is; the sidebar closes on cancel, or on a confirm that went
\* through, and stays open when nothing is selected or the append failed.
C16_ReviewFlow ==
    [][ /\ master' # master => (ConfirmSucceeded \/ ConfirmFailed)
        /\ (panel.open /\ ~panel'.open) =>
              \/ ConfirmSucceeded
              \/ master' = master /\ notices' = notices /\ lastTasks' = lastTasks
        /\ (~panel.open /\ panel'.open) => master' = master
        /\ (notices' # notices /\ Range(notices') \cap {ErrorNotice, NoSelectionNotice} # {}) =>
              panel' = panel
      ]_vars

\* A review went through after the user had typed into a row: the edited
\* row was submitted after an untouched one, and lines were appended.
C16_Witness ==
    /\ ~panel.open
    /\ SuccessNotice \in Range(notices)
    /\ lastTasks = << <<MARK, SP, "b">>, <<MARK, SP, "c">> >>
    /\ lastAppended # <<>>
    /\ master.content # lastBefore.content

(***************************************************************************)
(* Claim about repeated capture (checked under RepeatSpec)                 *)
(***************************************************************************)
\* The unchecked lines of the master file, in their order.
MasterTaskLines == SelectSeq(split(master.content), WellFormed)

\* C17: capture is idempotent under repetition: for every task of a batch,
\* the key of the line formatted from it, with the provenance the build
\* attaches under the configured date format, is the key of the task; so
\* with dedupe enabled the second capture of the same batch appends
\* nothing, and the master file never has two unchecked lines with the
\* same canonical key.
C17_RepetitionIdempotent ==
    enableDedupe =>
        /\ \A i \in 1..Len(lastTasks) :
              normalizeTask(variant, formatTask(variant, lastTasks[i]))
                 = normalizeTask(variant, lastTasks[i])
        /\ (ops = 2 /\ Merged) => (lastAppended = <<>> /\ master = lastBefore)
        /\ \A i, j \in 1..Len(MasterTaskLines) :
              i # j => CanonicalKey(MasterTaskLines[i]) # CanonicalKey(MasterTaskLines[j])

====
